---------------------------- MODULE Spec2Model ----------------------------
(***************************************************************************)
(* VectorX402 SDK: the X402 payment client (protocol/x402.ts), the vault   *)
(* (storage/vault.ts) and the marketplace Listing class (the second half   *)
(* of protocol/x402.ts), as a state machine.                               *)
(*                                                                         *)
(* Strings that the code inspects character by character (headers, JSON    *)
(* payloads, base64 text, ids) are sequences of one-character strings.     *)
(* Every async method is a call record that moves from one await to the    *)
(* next; the synchronous code between two awaits is one atomic action.     *)
(***************************************************************************)
EXTENDS Integers, Sequences, FiniteSets, Bags, TLC

VARIABLES
    config,     \* Vault.config: which optional settings are present
    now,        \* Date.now(), in ms after EpochPrefix000000
    listings,   \* Listing.listings: Map<string, MemoryShard>
    console,    \* the console.log lines of the mocked collaborators: a bag
                \* (how often each line was written; their order is not kept)
    calls,      \* every listMemoryShard / buyMemoryShard invocation so far
    signer,     \* X402Client.signer
    pays,       \* every X402Client invocation so far
    signLog,    \* the Signer collaborator's signMessage invocations: a bag
    response    \* the HTTP response under consideration

vars == <<config, now, listings, console, calls, signer, pays, signLog, response>>

marketVars == <<config, listings, console, calls>>
payVars    == <<signer, pays, signLog, response>>

Null == "null"          \* null / undefined, where the value is an atom

\* An optional value (T | undefined | null): no element or one.
None    == <<>>
Some(v) == <<v>>

\* A JavaScript truthiness test of an optional string: neither
\* null/undefined nor ''.
Truthy(o) == o # None /\ o[1] # <<>>

(***************************************************************************)
(* Bounds of the model.                                                    *)
(***************************************************************************)
MaxCalls == 3           \* marketplace invocations in one behaviour
MaxTicks == 1           \* clock advances in one behaviour
MaxPays  == 2           \* X402Client invocations in one behaviour
MaxMathCalls == 1       \* lib/math calls in one behaviour
MaxSearches == 1        \* findSimilarVectors / searchListings calls in one behaviour
MaxTokens == 2          \* createAuthHeader calls in one behaviour

TickMs == 100 * 1000    \* one clock advance, in ms

(***************************************************************************)
(* Characters, byte codes, decimal and base64 text.                        *)
(***************************************************************************)
Printable ==
    <<" ", "!", "\"", "#", "$", "%", "&", "'", "(", ")", "*", "+", ",", "-",
      ".", "/", "0", "1", "2", "3", "4", "5", "6", "7", "8", "9", ":", ";",
      "<", "=", ">", "?", "@", "A", "B", "C", "D", "E", "F", "G", "H", "I",
      "J", "K", "L", "M", "N", "O", "P", "Q", "R", "S", "T", "U", "V", "W",
      "X", "Y", "Z", "[", "\\", "]", "^", "_", "grave", "a", "b", "c", "d", "e",
      "f", "g", "h", "i", "j", "k", "l", "m", "n", "o", "p", "q", "r", "s",
      "t", "u", "v", "w", "x", "y", "z", "{", "|", "}", "~">>

\* The ASCII code of each printable character.
CodeOf ==
    [c \in {Printable[i] : i \in 1..Len(Printable)} |->
        31 + (CHOOSE i \in 1..Len(Printable) : Printable[i] = c)]

\* Buffer.from(str): the byte of an ASCII character.
CharCode(c) == CodeOf[c]

Bytes(s) == [i \in 1..Len(s) |-> CharCode(s[i])]

Base64Alphabet ==
    <<"A", "B", "C", "D", "E", "F", "G", "H", "I", "J", "K", "L", "M", "N",
      "O", "P", "Q", "R", "S", "T", "U", "V", "W", "X", "Y", "Z", "a", "b",
      "c", "d", "e", "f", "g", "h", "i", "j", "k", "l", "m", "n", "o", "p",
      "q", "r", "s", "t", "u", "v", "w", "x", "y", "z", "0", "1", "2", "3",
      "4", "5", "6", "7", "8", "9", "+", "/">>

B64(n) == Base64Alphabet[n + 1]

RECURSIVE Base64Bytes(_)
\* Buffer.toString('base64'): three bytes become four characters, '=' pads.
Base64Bytes(b) ==
    IF Len(b) = 0 THEN <<>>
    ELSE IF Len(b) = 1 THEN
        <<B64(b[1] \div 4), B64((b[1] % 4) * 16), "=", "=">>
    ELSE IF Len(b) = 2 THEN
        <<B64(b[1] \div 4), B64((b[1] % 4) * 16 + b[2] \div 16),
          B64((b[2] % 16) * 4), "=">>
    ELSE
        <<B64(b[1] \div 4), B64((b[1] % 4) * 16 + b[2] \div 16),
          B64((b[2] % 16) * 4 + b[3] \div 64), B64(b[3] % 64)>>
        \o Base64Bytes(SubSeq(b, 4, Len(b)))

Base64(s) == Base64Bytes(Bytes(s))

Digit(d) == Printable[17 + d]

\* [a-zA-Z0-9]: the base64 alphabet but its last two characters.
Alnum == {Base64Alphabet[i] : i \in 1..62}

IsAlnum(c) == c \in Alnum

\* .replace(/[^a-zA-Z0-9]/g, '')
StripNonAlnum(s) == SelectSeq(s, IsAlnum)

\* .substring(0, n)
Substring0(s, n) == SubSeq(s, 1, IF Len(s) < n THEN Len(s) ELSE n)

RECURSIVE NatStr(_)
NatStr(n) == IF n < 10 THEN <<Digit(n)>> ELSE NatStr(n \div 10) \o <<Digit(n % 10)>>

\* The text JSON.stringify and template literals give an integer.
IntStr(n) == IF n < 0 THEN <<"-">> \o NatStr(0 - n) ELSE NatStr(n)

RECURSIVE JoinInts(_)
JoinInts(v) ==
    IF Len(v) = 0 THEN <<>>
    ELSE IF Len(v) = 1 THEN IntStr(v[1])
    ELSE IntStr(v[1]) \o <<",">> \o JoinInts(Tail(v))

(***************************************************************************)
(* The clock.  Date.now() is a 13-digit number of milliseconds; the model  *)
(* keeps the offset `now` from EpochPrefix followed by six zeros.          *)
(***************************************************************************)
EpochPrefix == <<"1", "7", "0", "0", "0", "0", "0">>

Pad6(n) ==
    LET s == NatStr(n)
    IN  [i \in 1..(6 - Len(s)) |-> "0"] \o s

\* `${Date.now()}` and JSON.stringify(Date.now())
DateNowStr(t) == EpochPrefix \o Pad6(t)

(***************************************************************************)
(* JavaScript numbers.  A number is an IEEE 754 double: a sign, a mantissa *)
(* of 53 bits and an exponent of two.  The mantissa does not fit the       *)
(* integers of the checker, so naturals that large are kept as sequences   *)
(* of limbs, the least significant first, with no zero limb at the end.    *)
(***************************************************************************)
LimbBits == 15
Limb     == 2^LimbBits

RECURSIVE BigOfNat(_)
BigOfNat(n) == IF n = 0 THEN <<>> ELSE <<n % Limb>> \o BigOfNat(n \div Limb)

\* Limb n of x, zero beyond its end.
LimbAt(x, n) == IF n \in DOMAIN x THEN x[n] ELSE 0

\* x without the zero limbs at its end.
BigTrim(x) ==
    LET used == {n \in DOMAIN x : x[n] # 0}
    IN  IF used = {} THEN <<>>
        ELSE SubSeq(x, 1, CHOOSE n \in used : \A m \in used : m <= n)

\* -1, 0 or 1 as x is less than, equal to or greater than y.
BigCmp(x, y) ==
    IF Len(x) # Len(y) THEN (IF Len(x) < Len(y) THEN -1 ELSE 1)
    ELSE LET differ == {n \in DOMAIN x : x[n] # y[n]}
         IN  IF differ = {} THEN 0
             ELSE LET top == CHOOSE n \in differ : \A m \in differ : m <= n
                  IN  IF x[top] < y[top] THEN -1 ELSE 1

\* x + y.  A carry enters limb n when some limb below it overflows and
\* every limb between the two is full.
BigAdd(x, y) ==
    LET len      == IF Len(x) < Len(y) THEN Len(y) ELSE Len(x)
        sum      == [n \in 1..len |-> LimbAt(x, n) + LimbAt(y, n)] \o <<>>
        Carry(n) == \E j \in 1..(n - 1) :
                        /\ sum[j] >= Limb
                        /\ \A k \in (j + 1)..(n - 1) : sum[k] = Limb - 1
    IN  BigTrim([n \in 1..(len + 1) |->
                    IF n > len THEN (IF Carry(n) THEN 1 ELSE 0)
                    ELSE (sum[n] + (IF Carry(n) THEN 1 ELSE 0)) % Limb])

\* x - y, for x >= y.  A borrow enters limb n when some limb below it is
\* short and every limb between the two is exact.
BigSub(x, y) ==
    LET diff      == [n \in DOMAIN x |-> x[n] - LimbAt(y, n)] \o <<>>
        Borrow(n) == \E j \in 1..(n - 1) :
                        /\ diff[j] < 0
                        /\ \A k \in (j + 1)..(n - 1) : diff[k] = 0
    IN  BigTrim([n \in DOMAIN x |->
                    (diff[n] - (IF Borrow(n) THEN 1 ELSE 0) + Limb) % Limb])

\* x times Limb^n.
BigShiftLimbs(x, n) == IF Len(x) = 0 THEN x ELSE [m \in 1..n |-> 0] \o x

\* x times y: the columns' sums, their low parts and, one limb up, their
\* high parts.
BigMul(x, y) ==
    LET RECURSIVE ColumnSum(_, _)
        ColumnSum(k, n) ==
            IF n = 0 THEN 0
            ELSE ColumnSum(k, n - 1)
                 + ((x[n] * LimbAt(y, k + 1 - n)) % Limb)
                 + ((x[n] * LimbAt(y, k - n)) \div Limb)
        column == [k \in 1..(Len(x) + Len(y)) |-> ColumnSum(k, Len(x))] \o <<>>
    IN  BigAdd(BigTrim([k \in DOMAIN column |-> column[k] % Limb]),
               BigShiftLimbs(BigTrim([k \in DOMAIN column |-> column[k] \div Limb]), 1))

\* x times 2^bits, and x divided by 2^bits, rounded down.
BigShl(x, bits) ==
    LET r == bits % LimbBits
    IN  BigShiftLimbs(
            BigTrim([n \in 1..(Len(x) + 1) |->
                        ((LimbAt(x, n) * 2^r) % Limb) + (LimbAt(x, n - 1) \div 2^(LimbBits - r))]),
            bits \div LimbBits)

BigShr(x, bits) ==
    LET r    == bits % LimbBits
        high == SubSeq(x, bits \div LimbBits + 1, Len(x))
    IN  BigTrim([n \in DOMAIN high |->
                    (high[n] \div 2^r) + ((LimbAt(high, n + 1) % 2^r) * 2^(LimbBits - r))])

\* The number of bits of x.
BigBitLength(x) ==
    LET BitLength(n) == CHOOSE k \in 0..LimbBits : n < 2^k /\ (k = 0 \/ n >= 2^(k - 1))
    IN  IF Len(x) = 0 THEN 0 ELSE (Len(x) - 1) * LimbBits + BitLength(x[Len(x)])

\* The quotient of x by y, a limb at a time from the top, for the top limb
\* of y at least Limb / 2: the limbs of x above limb n have given the
\* quotient q and left r.  One limb of the quotient is how many times y
\* goes into what is left with limb n of x below it: the two top limbs of
\* that by the top limb of y give it, or up to two more.
RECURSIVE BigDivFrom(_, _, _, _, _)
BigDivFrom(x, y, n, q, r) ==
    LET MulSmall(s) ==
            BigAdd(BigTrim([m \in DOMAIN y |-> (y[m] * s) % Limb]),
                   BigShiftLimbs(BigTrim([m \in DOMAIN y |-> (y[m] * s) \div Limb]), 1))
        cur   == BigTrim(<<x[n]>> \o r)
        top   == (IF Len(cur) > Len(y) THEN cur[Len(y) + 1] * Limb ELSE 0)
                 + (IF Len(cur) >= Len(y) THEN cur[Len(y)] ELSE 0)
        guess == IF top \div y[Len(y)] >= Limb THEN Limb - 1 ELSE top \div y[Len(y)]
        d     == CHOOSE g \in {h \in (guess - 2)..guess : h >= 0} :
                     /\ BigCmp(MulSmall(g), cur) <= 0
                     /\ BigCmp(MulSmall(g + 1), cur) > 0
    IN  IF n = 0 THEN BigTrim(q)
        ELSE IF d = 0 THEN BigDivFrom(x, y, n - 1, <<0>> \o q, cur)
        ELSE BigDivFrom(x, y, n - 1, <<d>> \o q, BigSub(cur, MulSmall(d)))

\* x divided by y, rounded down, for y above zero: both are first shifted
\* so that the top limb of y is at least Limb / 2; the top limbs of x, one
\* fewer than y has, are what is left before the first limb of the quotient.
BigDiv(x, y) ==
    LET shift == LimbBits * Len(y) - BigBitLength(y)
        num   == BigShl(x, shift)
        den   == BigShl(y, shift)
        first == Len(num) - Len(den) + 1
    IN  IF first < 1 THEN <<>>
        ELSE BigDivFrom(num, den, first, <<>>, SubSeq(num, first + 1, Len(num)))

\* Newton's steps from a root r that is not too small, down to the root of
\* x rounded down: the next root is the mean of r and x / r, and is no
\* smaller than r when x / r is no smaller.
RECURSIVE BigSqrtFrom(_, _)
BigSqrtFrom(x, r) ==
    LET quo == BigDiv(x, r)
    IN  IF BigCmp(quo, r) >= 0 THEN r
        ELSE BigSqrtFrom(x, BigShr(BigAdd(r, quo), 1))

\* The square root of x, rounded down: Newton's steps from the root of the
\* top thirty bits of x (found as the multiple of step below it, then the
\* root itself), rounded up and shifted back.
BigSqrt(x) ==
    LET over  == IF BigBitLength(x) > 2 * LimbBits
                 THEN BigBitLength(x) - 2 * LimbBits ELSE 0
        half  == (over + 1) \div 2
        high  == BigShr(x, 2 * half)
        small == LimbAt(high, 1) + LimbAt(high, 2) * Limb
        step  == 2^(LimbBits \div 2)
        coarse == CHOOSE a \in 0..(Limb \div step) :
                      /\ (a * step) * (a * step) <= small
                      /\ ((a + 1) * step) * ((a + 1) * step) > small
        root  == CHOOSE t \in (coarse * step)..(coarse * step + step - 1) :
                      t * t <= small /\ (t + 1) * (t + 1) > small
    IN  IF Len(x) = 0 THEN <<>>
        ELSE BigSqrtFrom(x, BigShl(BigOfNat(root + 1), half))

MantissaBits == 53

\* A double is [sign, mant, exp], standing for sign * mant * 2^exp, with
\* mant of exactly MantissaBits bits, or zero.  Exponents stay far from
\* the ends of their range in this model.
Zero64 == [sign |-> 1, mant |-> <<>>, exp |-> 0]

\* The double nearest to sign * (m + rest) * 2^e, ties going to the even
\* mantissa; rest is above 0 and below 1 when something is left of what m
\* is the whole part of (m is then above zero), and 0 otherwise.
Round64(sign, m, left, e) ==
    IF Len(m) = 0 THEN Zero64
    ELSE LET wide == IF left THEN [BigShl(m, 1) EXCEPT ![1] = @ + 1] ELSE m
             exp  == IF left THEN e - 1 ELSE e
             drop == BigBitLength(wide) - MantissaBits
         IN  IF drop <= 0
             THEN [sign |-> sign, mant |-> BigShl(wide, 0 - drop), exp |-> exp + drop]
             ELSE LET kept == BigShr(wide, drop)
                      rest == BigSub(wide, BigShl(kept, drop))
                      half == BigCmp(rest, BigShl(<<1>>, drop - 1))
                      up   == half > 0 \/ (half = 0 /\ kept[1] % 2 = 1)
                      mant == IF up THEN BigAdd(kept, <<1>>) ELSE kept
                  IN  IF BigBitLength(mant) > MantissaBits
                      THEN [sign |-> sign, mant |-> BigShr(mant, 1),
                            exp |-> exp + drop + 1]
                      ELSE [sign |-> sign, mant |-> mant, exp |-> exp + drop]

\* The double of an integer.
Int64(n) ==
    Round64(IF n < 0 THEN -1 ELSE 1, BigOfNat(IF n < 0 THEN 0 - n ELSE n), FALSE, 0)

\* x * y
Mul64(x, y) ==
    IF Len(x.mant) = 0 \/ Len(y.mant) = 0 THEN Zero64
    ELSE Round64(x.sign * y.sign, BigMul(x.mant, y.mant), FALSE, x.exp + y.exp)

\* x / y, for y not zero: the quotient to two bits more than the mantissa,
\* and whether anything is left.
Div64(x, y) ==
    IF Len(x.mant) = 0 THEN Zero64
    ELSE LET num == BigShl(x.mant, MantissaBits + 2)
             quo == BigDiv(num, y.mant)
         IN  Round64(x.sign * y.sign, quo, BigCmp(BigMul(quo, y.mant), num) # 0,
                     x.exp - y.exp - (MantissaBits + 2))

\* Math.sqrt(x), for x not below zero: the root of the mantissa shifted to
\* an even exponent and to twice the bits and more, and whether anything
\* is left.
Sqrt64(x) ==
    IF Len(x.mant) = 0 THEN Zero64
    ELSE LET shift == MantissaBits + 2 + ((x.exp + MantissaBits) % 2)
             num   == BigShl(x.mant, shift)
             root  == BigSqrt(num)
         IN  Round64(1, root, BigCmp(BigMul(root, root), num) # 0,
                     (x.exp - shift) \div 2)

(***************************************************************************)
(* Vector math (lib/math).  Components are integers; a square root is kept *)
(* as the number under it, which orders the results as their values are    *)
(* ordered.  cosineSimilarityNumber gives the double the code returns,     *)
(* rounding included.                                                      *)
(***************************************************************************)
\* How a call's promise, or a function that may throw, stands.
Pending  == [kind |-> "pending"]
Ok(v)    == [kind |-> "ok", value |-> v]
Fail(e)  == [kind |-> "error", error |-> e]

\* The messages of the errors lib/math throws.
DimensionMismatch    == "Vector dimension mismatch"
ZeroVectorNormalize  == "Cannot normalize zero vector"
ZeroVectorSimilarity == "Cannot calculate similarity for zero vectors"

RECURSIVE SumProducts(_, _)
\* a.reduce((sum, val, i) => sum + val * b[i], 0), for equal lengths.
SumProducts(a, b) ==
    IF Len(a) = 0 THEN 0
    ELSE SumProducts(SubSeq(a, 1, Len(a) - 1), SubSeq(b, 1, Len(a) - 1))
         + a[Len(a)] * b[Len(a)]

dotProduct(a, b) ==
    IF Len(a) # Len(b) THEN Fail(DimensionMismatch)
    ELSE Ok(SumProducts(a, b))

\* Math.sqrt(dotProduct(vector, vector)), as [sqrt |-> n].
vectorNorm(vector) == Ok([sqrt |-> dotProduct(vector, vector).value])

\* Each component divided by the norm, as [num |-> val, sqrt |-> n].
normalizeVector(vector) ==
    LET norm == vectorNorm(vector).value
    IN  IF norm.sqrt = 0 THEN Fail(ZeroVectorNormalize)
        ELSE Ok([i \in 1..Len(vector) |-> [num |-> vector[i], sqrt |-> norm.sqrt]])

\* cosineSimilarity with its zero test passing when only one norm is zero.
cosineSimilarityBothZero(a, b) ==
    IF Len(a) # Len(b) THEN Fail(DimensionMismatch)
    ELSE LET dot   == dotProduct(a, b).value
             normA == vectorNorm(a).value
             normB == vectorNorm(b).value
         IN  IF normA.sqrt = 0 /\ normB.sqrt = 0 THEN Fail(ZeroVectorSimilarity)
             ELSE Ok([dot |-> dot, sqrt |-> normA.sqrt * normB.sqrt])

\* dot / (normA * normB), as [dot |-> d, sqrt |-> n]: d over the root of n.
cosineSimilarity(a, b) ==
    IF Len(a) # Len(b) THEN Fail(DimensionMismatch)
    ELSE LET dot   == dotProduct(a, b).value
             normA == vectorNorm(a).value
             normB == vectorNorm(b).value
         IN  IF normA.sqrt = 0 \/ normB.sqrt = 0 THEN Fail(ZeroVectorSimilarity)
             ELSE Ok([dot |-> dot, sqrt |-> normA.sqrt * normB.sqrt])

\* The number cosineSimilarity returns, as the double the code computes:
\* the dot products of integer vectors are integers and exact, each norm is
\* Math.sqrt of one, and the result is dot / (normA * normB), each of the
\* three operations rounded to the nearest double.
cosineSimilarityNumber(a, b) ==
    IF Len(a) # Len(b) THEN Fail(DimensionMismatch)
    ELSE LET dot   == Int64(dotProduct(a, b).value)
             normA == Sqrt64(Int64(dotProduct(a, a).value))
             normB == Sqrt64(Int64(dotProduct(b, b).value))
         IN  IF Len(normA.mant) = 0 \/ Len(normB.mant) = 0
             THEN Fail(ZeroVectorSimilarity)
             ELSE Ok(Div64(dot, Mul64(normA, normB)))

euclideanDistance(a, b) ==
    IF Len(a) # Len(b) THEN Fail(DimensionMismatch)
    ELSE LET diff == [i \in 1..Len(a) |-> a[i] - b[i]]
         IN  Ok([sqrt |-> SumProducts(diff, diff)])

\* The vectors the math functions are called on: of up to two components.
Components  == {-1, 0, 2}
MathVectors == {<<>>} \cup {<<x>> : x \in Components}
                     \cup {<<x, y>> : x \in Components, y \in Components}

\* One call of a function of lib/math.
MathCall(fn, a, b, result) ==
    /\ Len(calls) < MaxMathCalls
    /\ calls' = Append(calls, [op |-> "math", fn |-> fn, a |-> a, b |-> b,
                               pc |-> "done", result |-> result])
    /\ UNCHANGED <<config, now, listings, console>>
    /\ UNCHANGED payVars

CallDotProduct(a, b)        == MathCall("dotProduct", a, b, dotProduct(a, b))
CallVectorNorm(v)           == MathCall("vectorNorm", v, v, vectorNorm(v))
CallNormalizeVector(v)      == MathCall("normalizeVector", v, v, normalizeVector(v))
CallCosineSimilarity(a, b)  == MathCall("cosineSimilarity", a, b, cosineSimilarity(a, b))
CallEuclideanDistance(a, b) == MathCall("euclideanDistance", a, b, euclideanDistance(a, b))

\* The vectors cosineSimilarity is called on when the number it returns is
\* looked at: of one or two components.
NumberVectors ==
    {<<c>> : c \in {0, 3}} \cup {<<c, d>> : c \in {-1, 0, 3}, d \in {-1, 0, 3}}

\* One call of cosineSimilarity, with the double it returns.
CallCosineSimilarityNumber(a, b) ==
    /\ Len(calls) < MaxMathCalls
    /\ calls' = Append(calls, [op |-> "number", fn |-> "cosineSimilarity",
                               a |-> a, b |-> b, pc |-> "done",
                               result |-> cosineSimilarityNumber(a, b)])
    /\ UNCHANGED <<config, now, listings, console>>
    /\ UNCHANGED payVars

(***************************************************************************)
(* Vault (storage/vault.ts)                                                *)
(***************************************************************************)
\* JSON.stringify({ vector, timestamp: Date.now() })
VectorData(vector, t) ==
    <<"{", "\"", "v", "e", "c", "t", "o", "r", "\"", ":", "[">>
    \o JoinInts(vector)
    \o <<"]", ",", "\"", "t", "i", "m", "e", "s", "t", "a", "m", "p", "\"", ":">>
    \o DateNowStr(t)
    \o <<"}">>

CidHashLen == 46

generateMockCID(data) ==
    <<"Q", "m">> \o Substring0(StripNonAlnum(Base64(data)), CidHashLen)

\* The VectorMetadata uploadVector builds.
UploadMetadata(vector, owner, tags, t) ==
    [ cid       |-> generateMockCID(VectorData(vector, t)),
      dimension |-> Len(vector),
      createdAt |-> t,
      encrypted |-> config.encryptionKey,
      owner     |-> owner,
      tags      |-> IF tags = None THEN <<>> ELSE tags[1] ]

\* retrieveVector's result: the constant mock vector, in tenths.
MockVector == <<1, 2, 3, 4, 5>>

retrieveVector(cid) == MockVector

(***************************************************************************)
(* Listing (protocol/x402.ts, the marketplace half)                        *)
(***************************************************************************)
ListingIdLen == 16

generateListingId(cid, seller, t) ==
    Substring0(
        StripNonAlnum(Base64(cid \o <<"-">> \o seller \o <<"-">> \o DateNowStr(t))),
        ListingIdLen)

\* Inputs.
Vectors  == { <<1, 2>> }
Prices   == { <<"5">> }
Sellers  == { <<"0", "x", "A">> }
Buyers   == { <<"0", "x", "B">>, <<"0", "x", "C">> }
UnknownId == <<"n", "o", "n", "e">>

ListingNotFound == "Listing not found"

Log(line) == console' = console (+) SetToBag({line})

\* listMemoryShard up to its first await: uploadVector runs to its own
\* await (registerOnChain) or, with no registry configured, to its return.
ListStart(vector, price, seller) ==
    /\ Len(calls) < MaxCalls
    /\ \E metadata \in {UploadMetadata(vector, seller, None, now)} :
           /\ calls' = Append(calls,
                [ op |-> "list", pc |-> IF config.onChainRegistry THEN "upload" ELSE "uploaded",
                  vector |-> vector, price |-> price, seller |-> seller,
                  metadata |-> metadata, id |-> None, result |-> Pending ])
           /\ IF config.onChainRegistry
              THEN Log([msg |-> "Registering vector on-chain", cid |-> metadata.cid])
              ELSE UNCHANGED console
    /\ UNCHANGED <<config, now, listings>>
    /\ UNCHANGED payVars

\* uploadVector resumes after registerOnChain and returns the metadata.
ListUploaded(i) ==
    /\ calls[i].op = "list" /\ calls[i].pc = "upload"
    /\ calls' = [calls EXCEPT ![i].pc = "uploaded"]
    /\ UNCHANGED <<config, now, listings, console>>
    /\ UNCHANGED payVars

\* listMemoryShard resumes with the metadata: builds the listing, stores it
\* and calls registerListingOnChain, which logs and is awaited.
ListStore(i) ==
    /\ calls[i].op = "list" /\ calls[i].pc = "uploaded"
    /\ \E id \in {generateListingId(calls[i].metadata.cid, calls[i].seller, now)} :
       LET c  == calls[i]
           listing ==
               [ id |-> id, vectorMetadata |-> c.metadata, price |-> c.price,
                 seller |-> c.seller, listedAt |-> now,
                 description |-> Null, category |-> Null ]
       IN  /\ listings' = [k \in DOMAIN listings \cup {id} |->
                              IF k = id THEN listing ELSE listings[k]]
           /\ Log([msg |-> "Registering listing on-chain", id |-> id])
           /\ calls' = [calls EXCEPT ![i].pc = "registered", ![i].id = Some(id)]
    /\ UNCHANGED <<config, now>>
    /\ UNCHANGED payVars

ListReturn(i) ==
    /\ calls[i].op = "list" /\ calls[i].pc = "registered"
    /\ calls' = [calls EXCEPT ![i].pc = "done", ![i].result = Ok(calls[i].id[1])]
    /\ UNCHANGED <<config, now, listings, console>>
    /\ UNCHANGED payVars

\* The calls that have started and not returned (kept with each buy call so
\* that a formula can tell overlapping calls from sequential ones).
InFlight == {k \in DOMAIN calls : calls[k].pc # "done"}

\* The buy-before-lookup slip: the vector is fetched before the lookup result
\* is tested.
BuyStartFetchFirst(listingId, buyer) ==
    /\ Len(calls) < MaxCalls
    /\ IF listingId \notin DOMAIN listings
       THEN /\ calls' = Append(calls,
                 [ op |-> "buy", pc |-> "done", listingId |-> listingId,
                   buyer |-> buyer, listing |-> None, vector |-> None,
                   inFlight |-> InFlight,
                   result |-> Fail(ListingNotFound) ])
            /\ Log([msg |-> "Retrieving vector from IPFS", cid |-> <<>>])
       ELSE LET listing == listings[listingId]
            IN  /\ calls' = Append(calls,
                     [ op |-> "buy", pc |-> "retrieving", listingId |-> listingId,
                       buyer |-> buyer, listing |-> Some(listing),
                       inFlight |-> InFlight,
                       vector |-> Some(retrieveVector(listing.vectorMetadata.cid)),
                       result |-> Pending ])
                /\ Log([msg |-> "Retrieving vector from IPFS",
                        cid |-> listing.vectorMetadata.cid])
    /\ UNCHANGED <<config, now, listings>>
    /\ UNCHANGED payVars

\* buyMemoryShard up to its first await: the lookup, the throw when the id
\* is unknown, and the call of retrieveVector (which logs and returns the
\* mock vector).
BuyStart(listingId, buyer) ==
    /\ Len(calls) < MaxCalls
    /\ IF listingId \notin DOMAIN listings
       THEN /\ calls' = Append(calls,
                 [ op |-> "buy", pc |-> "done", listingId |-> listingId,
                   buyer |-> buyer, listing |-> None, vector |-> None,
                   inFlight |-> InFlight,
                   result |-> Fail(ListingNotFound) ])
            /\ UNCHANGED console
       ELSE LET listing == listings[listingId]
            IN  /\ calls' = Append(calls,
                     [ op |-> "buy", pc |-> "retrieving", listingId |-> listingId,
                       buyer |-> buyer, listing |-> Some(listing),
                       inFlight |-> InFlight,
                       vector |-> Some(retrieveVector(listing.vectorMetadata.cid)),
                       result |-> Pending ])
                /\ Log([msg |-> "Retrieving vector from IPFS",
                        cid |-> listing.vectorMetadata.cid])
    /\ UNCHANGED <<config, now, listings>>
    /\ UNCHANGED payVars

\* recordPurchase (mock): one console line, nothing stored.
BuyRecord(i) ==
    /\ calls[i].op = "buy" /\ calls[i].pc = "retrieving"
    /\ Log([msg |-> "Recording purchase", listingId |-> calls[i].listingId,
            buyer |-> calls[i].buyer, seller |-> calls[i].listing[1].seller,
            price |-> calls[i].listing[1].price])
    /\ calls' = [calls EXCEPT ![i].pc = "recording"]
    /\ UNCHANGED <<config, now, listings>>
    /\ UNCHANGED payVars

\* transferOwnership (mock): one console line, no owner field is written.
BuyTransfer(i) ==
    /\ calls[i].op = "buy" /\ calls[i].pc = "recording"
    /\ Log([msg |-> "Transferring ownership",
            cid |-> calls[i].listing[1].vectorMetadata.cid,
            newOwner |-> calls[i].buyer])
    /\ calls' = [calls EXCEPT ![i].pc = "transferring"]
    /\ UNCHANGED <<config, now, listings>>
    /\ UNCHANGED payVars

BuyReturn(i) ==
    /\ calls[i].op = "buy" /\ calls[i].pc = "transferring"
    /\ calls' = [calls EXCEPT ![i].pc = "done", ![i].result = Ok(calls[i].vector[1])]
    /\ UNCHANGED <<config, now, listings, console>>
    /\ UNCHANGED payVars

Tick ==
    /\ now < MaxTicks * TickMs
    /\ now' = now + TickMs
    /\ UNCHANGED <<config, listings, console, calls>>
    /\ UNCHANGED payVars

(***************************************************************************)
(* The catalog used on its own: uploadVector and retrieveVector called     *)
(* directly on the vault, getListing and getAllListings on the marketplace.*)
(***************************************************************************)
\* Vectors to list: they differ in their first component.
CatalogVectors == { <<1, 2>>, <<3>> }
CatalogSellers == { <<"0", "x", "A">>, <<"0", "x", "B">> }

\* Vectors to upload: thirteen components, the first twelve shared.
LongVectors ==
    { <<1, 1, 1, 1, 1, 1, 1, 1, 1, 1, 1, 1, 1>>,
      <<1, 1, 1, 1, 1, 1, 1, 1, 1, 1, 1, 1, 2>> }

\* A content id that uploadVector returns for no payload.
UnknownCid == <<"Q", "m", "N", "o", "n", "e">>

\* vault.uploadVector(vector, { owner }) up to its await of registerOnChain
\* or, with no registry configured, to its return.
UploadStart(vector, owner) ==
    /\ Len(calls) < MaxCalls
    /\ \E metadata \in {UploadMetadata(vector, owner, None, now)} :
           /\ calls' = Append(calls,
                [ op |-> "upload", pc |-> IF config.onChainRegistry THEN "upload" ELSE "done",
                  vector |-> vector, metadata |-> metadata,
                  result |-> IF config.onChainRegistry THEN Pending ELSE Ok(metadata) ])
           /\ IF config.onChainRegistry
              THEN Log([msg |-> "Registering vector on-chain", cid |-> metadata.cid])
              ELSE UNCHANGED console
    /\ UNCHANGED <<config, now, listings>>
    /\ UNCHANGED payVars

\* uploadVector resumes after registerOnChain and returns the metadata.
UploadReturn(i) ==
    /\ calls[i].op = "upload" /\ calls[i].pc = "upload"
    /\ calls' = [calls EXCEPT ![i].pc = "done", ![i].result = Ok(calls[i].metadata)]
    /\ UNCHANGED <<config, now, listings, console>>
    /\ UNCHANGED payVars

\* The content ids uploadVector has produced so far, for direct uploads and
\* for listings.
UploadedCids ==
    {calls[k].metadata.cid : k \in {n \in DOMAIN calls : calls[n].op \in {"upload", "list"}}}

\* vault.retrieveVector(cid): it awaits nothing, logs and returns.
Retrieve(cid) ==
    /\ Len(calls) < MaxCalls
    /\ calls' = Append(calls,
          [ op |-> "retrieve", pc |-> "done", cid |-> cid,
            result |-> Ok(retrieveVector(cid)) ])
    /\ Log([msg |-> "Retrieving vector from IPFS", cid |-> cid])
    /\ UNCHANGED <<config, now, listings>>
    /\ UNCHANGED payVars

\* Listing.getListing(listingId)
getListing(listingId) ==
    IF listingId \in DOMAIN listings THEN Some(listings[listingId]) ELSE None

\* Listing.getAllListings(): the values of the map (their order is not kept).
getAllListings == {listings[k] : k \in DOMAIN listings}

(***************************************************************************)
(* Similarity search: Vault.findSimilarVectors and Listing.searchListings. *)
(* A similarity is the [dot, sqrt] cosineSimilarity returns; a threshold   *)
(* is a number of tenths.                                                  *)
(***************************************************************************)
\* t / 10 as a similarity: t over the root of 100.
Tenths(t) == [dot |-> t, sqrt |-> 100]

\* s < t on similarities: s.dot * root(t.sqrt) < t.dot * root(s.sqrt),
\* decided on the squares.
SimLess(s, t) ==
    IF s.dot < 0 /\ t.dot >= 0 THEN TRUE
    ELSE IF s.dot >= 0 /\ t.dot < 0 THEN FALSE
    ELSE IF s.dot >= 0
    THEN s.dot * s.dot * t.sqrt < t.dot * t.dot * s.sqrt
    ELSE s.dot * s.dot * t.sqrt > t.dot * t.dot * s.sqrt

\* results.sort((a, b) => b.similarity - a.similarity): descending, and
\* stable, so that equal similarities keep their order.  The place of an
\* element is one more than the number of elements that go before it: the
\* greater ones, and the equal ones that stood before it.
SortBySimilarity(rs) ==
    IF Len(rs) <= 1 THEN rs
    ELSE LET place == [j \in DOMAIN rs |->
                         1 + Cardinality({k \in DOMAIN rs :
                               \/ SimLess(rs[j].similarity, rs[k].similarity)
                               \/ k < j /\ ~SimLess(rs[k].similarity, rs[j].similarity)})]
                      \o <<>>
         IN  [p \in DOMAIN rs |-> rs[CHOOSE j \in DOMAIN rs : place[j] = p]]

\* `QmMock${i}`
MockCid(i) == <<"Q", "m", "M", "o", "c", "k">> \o NatStr(i)

\* What Math.random() may return, up to a common factor.
RandomValues == {0, 1}

\* Array(n).fill(0).map(() => Math.random()), for n up to 2.
RandomVectors(n) ==
    IF n = 0 THEN {<<>>}
    ELSE IF n = 1 THEN {<<x>> : x \in RandomValues}
    ELSE {<<x, y>> : x \in RandomValues, y \in RandomValues}

\* The mock record of loop index i (from 0) with its similarity.
MockResult(queryVector, i, similarity, t) ==
    [ metadata   |-> [ cid |-> MockCid(i), dimension |-> Len(queryVector),
                       createdAt |-> t - i * 1000, encrypted |-> FALSE ],
      similarity |-> similarity ]

\* findSimilarVectors with its final sort left out.
findSimilarVectorsUnsorted(queryVector, threshold, limit, random, t) ==
    LET sims == [i \in 1..limit |-> cosineSimilarity(queryVector, random[i])]
        all  == [i \in 1..limit |-> MockResult(queryVector, i - 1, sims[i].value, t)]
        Kept(r) == ~SimLess(r.similarity, Tenths(threshold))
    IN  IF \E i \in 1..limit : sims[i].kind = "error"
        THEN sims[CHOOSE i \in 1..limit :
                    /\ sims[i].kind = "error"
                    /\ \A j \in 1..(i - 1) : sims[j].kind # "error"]
        ELSE Ok(SelectSeq(all, Kept))

\* findSimilarVectors(queryVector, threshold, limit) at time t; random[i]
\* is the vector Math.random gives in round i of the loop.  A throw of
\* cosineSimilarity ends the call.
findSimilarVectors(queryVector, threshold, limit, random, t) ==
    LET sims == [i \in 1..limit |-> cosineSimilarity(queryVector, random[i])]
        all  == [i \in 1..limit |-> MockResult(queryVector, i - 1, sims[i].value, t)]
        Kept(r) == ~SimLess(r.similarity, Tenths(threshold))
    IN  IF \E i \in 1..limit : sims[i].kind = "error"
        THEN sims[CHOOSE i \in 1..limit :
                    /\ sims[i].kind = "error"
                    /\ \A j \in 1..(i - 1) : sims[j].kind # "error"]
        ELSE Ok(SortBySimilarity(SelectSeq(all, Kept)))

\* The calls of findSimilarVectors and searchListings so far.
Searches == {k \in DOMAIN calls : calls[k].op \in {"findSimilar", "search"}}

SearchingLine(threshold) ==
    [msg |-> "Searching for vectors similar to query", threshold |-> threshold]

\* vault.findSimilarVectors called directly: it awaits nothing.
FindSimilar(queryVector, threshold, limit, random) ==
    /\ Len(calls) < MaxCalls
    /\ Cardinality(Searches) < MaxSearches
    /\ calls' = Append(calls,
          [ op |-> "findSimilar", pc |-> "done", query |-> queryVector,
            threshold |-> threshold, limit |-> limit, at |-> now,
            result |-> findSimilarVectors(queryVector, threshold, limit, random, now) ])
    /\ Log(SearchingLine(threshold))
    /\ UNCHANGED <<config, now, listings>>
    /\ UNCHANGED payVars

\* The arguments of the direct calls: a query, two thresholds (0.5 and
\* 0.9), and limits up to two.
Queries    == { <<1, 2>> }
Thresholds == {5, 9}
Limits     == {0, 1, 2}

\* BigInt(str) of a string of decimal digits.
RECURSIVE BigInt(_)
BigInt(str) ==
    IF Len(str) = 0 THEN 0
    ELSE 10 * BigInt(SubSeq(str, 1, Len(str) - 1)) + (CharCode(str[Len(str)]) - 48)

DefaultMinSimilarity == 7
SearchLimit == 50

\* filters?.minSimilarity || 0.7, in tenths.
SearchThreshold(filters) ==
    IF filters # None /\ filters[1].minSimilarity # None /\ filters[1].minSimilarity[1] # 0
    THEN filters[1].minSimilarity[1]
    ELSE DefaultMinSimilarity

\* Array.from(this.listings.values()).find(l => l.vectorMetadata.cid === cid):
\* the first listing with that cid (the model keeps no insertion order of
\* the map and takes the one listed first).
FindByCid(cid) ==
    LET hits == {l \in getAllListings : l.vectorMetadata.cid = cid}
    IN  IF hits = {} THEN None
        ELSE Some(CHOOSE l \in hits : \A m \in hits : l.listedAt <= m.listedAt)

\* The three filter tests of the loop: TRUE when the listing is skipped.
Skipped(listing, filters) ==
    /\ filters # None
    /\ \/ /\ Truthy(filters[1].maxPrice)
           /\ BigInt(listing.price) > BigInt(filters[1].maxPrice[1])
       \/ /\ Truthy(filters[1].category)
           /\ (listing.category = Null \/ listing.category # filters[1].category[1])
       \/ /\ Truthy(filters[1].seller)
           /\ listing.seller # filters[1].seller[1]

\* The loop of searchListings over the similar vectors, in their order.
MatchListings(similarVectors, filters) ==
    LET Pushed(r) ==
            /\ FindByCid(r.metadata.cid) # None
            /\ ~Skipped(FindByCid(r.metadata.cid)[1], filters)
        kept == SelectSeq(similarVectors, Pushed)
    IN  [n \in DOMAIN kept |->
            [ listing    |-> FindByCid(kept[n].metadata.cid)[1],
              similarity |-> kept[n].similarity ]]

\* The filters searchListings is called with: none, only a minSimilarity
\* (0 and 0.9), and a price, category and seller filter.
NoFilter == [minSimilarity |-> None, maxPrice |-> None, category |-> None, seller |-> None]

SearchFilters ==
    { None,
      Some([NoFilter EXCEPT !.minSimilarity = Some(0)]),
      Some([NoFilter EXCEPT !.minSimilarity = Some(9)]),
      Some([NoFilter EXCEPT !.maxPrice = Some(<<"4">>), !.category = Some(<<"c">>),
                            !.seller = Some(<<"0", "x", "B">>)]) }

\* What Math.random gives in the rounds of the loop of a search: one vector
\* in the odd rounds and one in the even rounds (all zeros among them).
SearchDraws ==
    { [i \in 1..SearchLimit |-> IF i % 2 = 1 THEN v ELSE <<1, 1>>] :
        v \in {<<0, 0>>, <<0, 1>>, <<1, 1>>} }

\* searchListings up to its await: findSimilarVectors runs to its end.
SearchStart(queryVector, filters, random) ==
    /\ Len(calls) < MaxCalls
    /\ Cardinality(Searches) < MaxSearches
    /\ \E threshold \in {SearchThreshold(filters)} :
          /\ calls' = Append(calls,
                [ op |-> "search", pc |-> "finding", query |-> queryVector,
                  filters |-> filters, threshold |-> threshold,
                  inFlight |-> {k \in DOMAIN calls : calls[k].pc # "done"},
                  similar |-> findSimilarVectors(queryVector, threshold, SearchLimit,
                                                 random, now),
                  result |-> Pending ])
          /\ Log(SearchingLine(threshold))
    /\ UNCHANGED <<config, now, listings>>
    /\ UNCHANGED payVars

\* searchListings resumes with the similar vectors (or their error),
\* matches them with the listings, sorts and returns.
SearchReturn(i) ==
    /\ calls[i].op = "search" /\ calls[i].pc = "finding"
    /\ calls' = [calls EXCEPT ![i].pc = "done",
                     ![i].result =
                        IF calls[i].similar.kind = "error" THEN calls[i].similar
                        ELSE Ok(SortBySimilarity(
                                  MatchListings(calls[i].similar.value, calls[i].filters)))]
    /\ UNCHANGED <<config, now, listings, console>>
    /\ UNCHANGED payVars

(***************************************************************************)
(* X402 challenge parsing (protocol/x402.ts, parseX402Headers)             *)
(***************************************************************************)
\* Whether pattern p occurs in s at position i.
MatchAt(s, i, p) ==
    /\ i + Len(p) - 1 <= Len(s)
    /\ SubSeq(s, i, i + Len(p) - 1) = p

startsWith(s, p) == MatchAt(s, 1, p)

SetMin(S) == CHOOSE x \in S : \A y \in S : x <= y

\* The capture of /name="([^"]+)"/ tried at position i: name=" there, then
\* one or more characters other than '"', then '"'.
QuotedAt(s, i, name) ==
    LET pre    == name \o <<"=", "\"">>
        start  == i + Len(pre)
        quotes == {k \in start..Len(s) : s[k] = "\""}
    IN  IF MatchAt(s, i, pre) /\ quotes # {} /\ SetMin(quotes) > start
        THEN Some(SubSeq(s, start, SetMin(quotes) - 1))
        ELSE None

\* s.match(/name="([^"]+)"/)?.[1]: the capture of the leftmost match.
MatchQuoted(s, name) ==
    LET hits == {i \in 1..Len(s) : QuotedAt(s, i, name) # None}
    IN  IF hits = {} THEN None ELSE QuotedAt(s, SetMin(hits), name)

\* x || ''
OrEmpty(o) == IF Truthy(o) THEN o[1] ELSE <<>>

\* x || undefined
OrUndefined(o) == IF Truthy(o) THEN o ELSE None

SchemeX402 == <<"X", "4", "0", "2">>

\* parseX402Headers with its two branches in the other order: the flat
\* headers are used whenever they carry price and wallet.
parseFlatFirst(r) ==
    IF Truthy(r.price) /\ Truthy(r.wallet)
    THEN Some([ price        |-> r.price[1],
                wallet       |-> r.wallet[1],
                tokenAddress |-> OrUndefined(r.token),
                nonce        |-> OrUndefined(r.nonce),
                expiry       |-> None ])
    ELSE IF Truthy(r.www) /\ startsWith(r.www[1], SchemeX402)
    THEN Some([ price        |-> OrEmpty(MatchQuoted(r.www[1], <<"p", "r", "i", "c", "e">>)),
                wallet       |-> OrEmpty(MatchQuoted(r.www[1], <<"w", "a", "l", "l", "e", "t">>)),
                tokenAddress |-> MatchQuoted(r.www[1], <<"t", "o", "k", "e", "n">>),
                nonce        |-> MatchQuoted(r.www[1], <<"n", "o", "n", "c", "e">>),
                expiry       |-> None ])
    ELSE None

\* A response is [status, www, price, wallet, token, nonce, expiry]: the
\* status and the WWW-Authenticate and X-402-* header values, each header
\* an optional string.  The result is the optional X402PaymentDetails; the
\* object literals of the code set no expiry.
parseX402Headers(r) ==
    IF Truthy(r.www) /\ startsWith(r.www[1], SchemeX402)
    THEN Some([ price        |-> OrEmpty(MatchQuoted(r.www[1], <<"p", "r", "i", "c", "e">>)),
                wallet       |-> OrEmpty(MatchQuoted(r.www[1], <<"w", "a", "l", "l", "e", "t">>)),
                tokenAddress |-> MatchQuoted(r.www[1], <<"t", "o", "k", "e", "n">>),
                nonce        |-> MatchQuoted(r.www[1], <<"n", "o", "n", "c", "e">>),
                expiry       |-> None ])
    ELSE IF Truthy(r.price) /\ Truthy(r.wallet)
    THEN Some([ price        |-> r.price[1],
                wallet       |-> r.wallet[1],
                tokenAddress |-> OrUndefined(r.token),
                nonce        |-> OrUndefined(r.nonce),
                expiry       |-> None ])
    ELSE None

PaymentRequired == 402

\* The errors of X402Client, named after the kinds of the specification.
UnsupportedStatus == "Expected 402 status"
MissingChallenge  == "Missing X402 payment details in response headers"
MalformedChallenge == "Invalid X402 headers: price and wallet are required"
MissingSigner     == "No signer configured. Call setSigner() first."

\* handle402Error: the promise it returns (it awaits nothing).
handle402Error(r) ==
    IF r.status # PaymentRequired THEN Fail(UnsupportedStatus)
    ELSE LET paymentDetails == parseX402Headers(r)
         IN  IF paymentDetails = None THEN Fail(MissingChallenge)
             ELSE IF paymentDetails[1].price = <<>> \/ paymentDetails[1].wallet = <<>>
             THEN Fail(MalformedChallenge)
             ELSE Ok(paymentDetails[1])

(***************************************************************************)
(* Responses a resource server may send.                                   *)
(***************************************************************************)
RECURSIVE JoinFields(_)
\* name="value" pairs separated by ", ".
JoinFields(fs) ==
    IF Len(fs) = 0 THEN <<>>
    ELSE LET f == fs[1][1] \o <<"=", "\"">> \o fs[1][2] \o <<"\"">>
         IN  IF Len(fs) = 1 THEN f ELSE f \o <<",", " ">> \o JoinFields(Tail(fs))

\* The header value: scheme name="value", ...
Structured(scheme, fs) ==
    IF Len(fs) = 0 THEN scheme ELSE scheme \o <<" ">> \o JoinFields(fs)

\* The field as a one-element list of pairs, or no pair when it is absent.
Field(name, o) == IF o = None THEN <<>> ELSE <<<<name, o[1]>>>>

StructuredHeader(scheme, price, wallet, token, nonce, expiry) ==
    Structured(scheme,
        Field(<<"p", "r", "i", "c", "e">>, price)
        \o Field(<<"w", "a", "l", "l", "e", "t">>, wallet)
        \o Field(<<"t", "o", "k", "e", "n">>, token)
        \o Field(<<"n", "o", "n", "c", "e">>, nonce)
        \o Field(<<"e", "x", "p", "i", "r", "y">>, expiry))

Schemes == { SchemeX402, <<"B", "a", "s", "i", "c">> }

StructuredHeaders ==
    { StructuredHeader(sc, p, w, t, n, e) :
        sc \in Schemes,
        p \in {None, Some(<<>>), Some(<<"5">>)},
        w \in {None, Some(<<"A">>)},
        t \in {None, Some(<<"T">>)},
        n \in {None, Some(<<"n">>)},
        e \in {None, Some(<<"1">>)} }

Statuses == {PaymentRequired, 200}

Responses ==
    [ status : Statuses,
      www    : {None} \cup {Some(h) : h \in StructuredHeaders},
      price  : {None, Some(<<"7">>)},
      wallet : {None, Some(<<"B">>)},
      token  : {None, Some(<<"U">>)},
      nonce  : {None, Some(<<"m">>)},
      expiry : {None, Some(<<"2">>)} ]

\* handle402Error(response) called on its own.
Handle402 ==
    /\ response # None
    /\ Len(pays) < MaxPays
    /\ pays' = Append(pays,
          [ op |-> "handle402Error", pc |-> "done", response |-> response[1],
            result |-> handle402Error(response[1]) ])
    /\ UNCHANGED <<signer, signLog, response, now>>
    /\ UNCHANGED marketVars

(***************************************************************************)
(* X402Client: signPayment, createAuthHeader, processPaymentFlow           *)
(***************************************************************************)
Signers == {"signer1", "signer2"}

Urls == { <<"h", "t", "t", "p", "s", ":", "/", "/", "a", "p", "i", "/">> }

\* The X402PaymentDetails a caller may hand to signPayment itself: a
\* challenge with a nonce and an expiry long past, and one with neither.
DetailsInputs ==
    { d \in [ price        : {<<"5">>},
              wallet       : {<<"A">>},
              tokenAddress : {None},
              nonce        : {None, Some(<<"n">>)},
              expiry       : {None, Some(1)} ] :
        (d.nonce = None) <=> (d.expiry = None) }

FullChallenge ==
    StructuredHeader(SchemeX402, Some(<<"5">>), Some(<<"A">>), None,
                     Some(<<"n">>), Some(<<"1">>))

NoWalletChallenge ==
    StructuredHeader(SchemeX402, Some(<<"5">>), None, None, None, None)

\* The responses processPaymentFlow is run on: a full structured challenge
\* (with 402 and with 200), a structured challenge without wallet, a full
\* flat challenge, and a 402 with no challenge at all.
FlowResponses ==
    { r \in Responses :
        /\ r.token = None
        /\ \/ /\ r.www \in {Some(FullChallenge), Some(NoWalletChallenge)}
              /\ r.price = None /\ r.wallet = None /\ r.nonce = None /\ r.expiry = None
              /\ (r.status # PaymentRequired => r.www = Some(FullChallenge))
           \/ /\ r.www = None /\ r.status = PaymentRequired
              /\ ((r.price = None) <=> (r.wallet = None))
              /\ ((r.price = None) <=> (r.nonce = None))
              /\ ((r.price = None) <=> (r.expiry = None)) }

EpochSec == 17 * 100000000

\* Math.floor(Date.now() / 1000)
NowSeconds(t) == EpochSec + t \div 1000

\* JSON.stringify's escapes of the printable characters: '"' and '\' get a
\* '\' before them.
RECURSIVE JsonEscape(_)
JsonEscape(str) ==
    IF Len(str) = 0 THEN <<>>
    ELSE (IF Head(str) \in {"\"", "\\"} THEN <<"\\", Head(str)>> ELSE <<Head(str)>>)
         \o JsonEscape(Tail(str))

\* JSON.stringify of a string.
JsonStr(str) == <<"\"">> \o JsonEscape(str) \o <<"\"">>

\* The message signPayment signs: JSON.stringify({url, price, recipient,
\* token, nonce, timestamp}).
PaymentMessage(paymentDetails, requestUrl, timestamp) ==
    <<"{", "\"", "u", "r", "l", "\"", ":">> \o JsonStr(requestUrl)
    \o <<",", "\"", "p", "r", "i", "c", "e", "\"", ":">> \o JsonStr(paymentDetails.price)
    \o <<",", "\"", "r", "e", "c", "i", "p", "i", "e", "n", "t", "\"", ":">>
    \o JsonStr(paymentDetails.wallet)
    \o <<",", "\"", "t", "o", "k", "e", "n", "\"", ":">>
    \o JsonStr(IF Truthy(paymentDetails.tokenAddress) THEN paymentDetails.tokenAddress[1]
               ELSE <<"n", "a", "t", "i", "v", "e">>)
    \o <<",", "\"", "n", "o", "n", "c", "e", "\"", ":">>
    \o JsonStr(IF Truthy(paymentDetails.nonce) THEN paymentDetails.nonce[1]
               ELSE IntStr(timestamp))
    \o <<",", "\"", "t", "i", "m", "e", "s", "t", "a", "m", "p", "\"", ":">>
    \o IntStr(timestamp)
    \o <<"}">>

\* The Signer collaborator's signature of a message, and ethers.id of the
\* message followed by the signature: opaque values that determine, and are
\* determined by, what went in.
signMessage(s, message) == [signedBy |-> s, over |-> message]
ethersId(message, signature) == [keccak256 |-> <<message, signature>>]

\* The X402PaymentProof signPayment returns.
PaymentProof(message, signature, timestamp) ==
    [ transactionHash |-> ethersId(message, signature),
      signature       |-> signature,
      timestamp       |-> timestamp ]

\* processPaymentFlow's createAuthHeader(proof) of the proof signPayment
\* made: the hash and the signature are the collaborators' opaque values,
\* whose text the model does not have, so the header is kept as the scheme
\* and the object that is encoded.
OpaqueAuthHeader(proof) ==
    [ scheme  |-> SchemeX402,
      payload |-> [tx |-> proof.transactionHash, sig |-> proof.signature,
                   ts |-> proof.timestamp] ]

\* createAuthHeader building the JSON text by hand, the strings put
\* between quotes as they are.
createAuthHeaderUnescaped(proof) ==
    SchemeX402 \o <<" ">>
    \o Base64(<<"{", "\"", "t", "x", "\"", ":", "\"">> \o proof.transactionHash
              \o <<"\"", ",", "\"", "s", "i", "g", "\"", ":", "\"">> \o proof.signature
              \o <<"\"", ",", "\"", "t", "s", "\"", ":">> \o IntStr(proof.timestamp)
              \o <<"}">>)

\* createAuthHeader(proof) of a proof whose hash and signature are text:
\* `X402 ${Buffer.from(JSON.stringify({tx, sig, ts})).toString('base64')}`
createAuthHeader(proof) ==
    LET proofString ==
            <<"{", "\"", "t", "x", "\"", ":">> \o JsonStr(proof.transactionHash)
            \o <<",", "\"", "s", "i", "g", "\"", ":">> \o JsonStr(proof.signature)
            \o <<",", "\"", "t", "s", "\"", ":">> \o IntStr(proof.timestamp)
            \o <<"}">>
    IN  SchemeX402 \o <<" ">> \o Base64(proofString)

\* The proofs createAuthHeader is called with: hashes and signatures with
\* and without characters JSON escapes, the empty signature, and
\* timestamps of one digit, of ten, and below zero.
ProofTexts ==
    [ transactionHash : { <<"0", "x", "a">>, <<"a", "\"">>, <<"\\", "b">> },
      signature       : { <<>>, <<"0", "x", "\"", "\\">> },
      timestamp       : { 0, -1, 12, EpochSec } ]

\* client.createAuthHeader(proof) called directly: it awaits nothing.
CreateAuthHeader(proof) ==
    /\ Len(calls) < MaxTokens
    /\ calls' = Append(calls, [ op |-> "createAuthHeader", proof |-> proof,
                                result |-> createAuthHeader(proof) ])
    /\ UNCHANGED <<config, now, listings, console>>
    /\ UNCHANGED payVars

\* The X402Client calls that have started and not returned.
PaysInFlight == {k \in DOMAIN pays : pays[k].pc # "done"}

PayCall(op, pc, url, details, handled, addressOf, result) ==
    [ op |-> op, pc |-> pc, url |-> url, details |-> details, handled |-> handled,
      inFlight |-> PaysInFlight,
      addressOf |-> addressOf, signedBy |-> Null,
      message |-> None, timestamp |-> None, result |-> result ]

setSigner(s) ==
    /\ s # signer
    /\ signer' = s
    /\ UNCHANGED <<pays, signLog, response, now>>
    /\ UNCHANGED marketVars

\* signPayment without its signer test: the call goes on to getAddress()
\* whether or not a signer is configured.
SignPaymentStartUnchecked(paymentDetails, requestUrl) ==
    /\ Len(pays) < MaxPays
    /\ pays' = Append(pays,
          PayCall("signPayment", "address", requestUrl, Some(paymentDetails), Pending,
                  signer, Pending))
    /\ UNCHANGED <<signer, signLog, response, now>>
    /\ UNCHANGED marketVars

\* signPayment up to its first await: the signer test, then getAddress().
SignPaymentStart(paymentDetails, requestUrl) ==
    /\ Len(pays) < MaxPays
    /\ pays' = Append(pays,
          IF signer = Null
          THEN PayCall("signPayment", "done", requestUrl, Some(paymentDetails), Pending,
                       Null, Fail(MissingSigner))
          ELSE PayCall("signPayment", "address", requestUrl, Some(paymentDetails), Pending,
                       signer, Pending))
    /\ UNCHANGED <<signer, signLog, response, now>>
    /\ UNCHANGED marketVars

\* processPaymentFlow up to its first await: handle402Error runs to its end.
FlowStart(requestUrl) ==
    /\ response # None
    /\ Len(pays) < MaxPays
    /\ pays' = Append(pays,
          PayCall("processPaymentFlow", "handled", requestUrl, None,
                  handle402Error(response[1]), Null, Pending))
    /\ UNCHANGED <<signer, signLog, response, now>>
    /\ UNCHANGED marketVars

\* processPaymentFlow resuming with the signer test made before
\* handle402Error's outcome is looked at.
FlowResumeSignerFirst(i) ==
    /\ pays[i].op = "processPaymentFlow" /\ pays[i].pc = "handled"
    /\ pays' =
          IF signer = Null
          THEN [pays EXCEPT ![i].pc = "done", ![i].result = Fail(MissingSigner)]
          ELSE IF pays[i].handled.kind = "error"
          THEN [pays EXCEPT ![i].pc = "done", ![i].result = pays[i].handled]
          ELSE [pays EXCEPT ![i].pc = "address", ![i].addressOf = signer,
                            ![i].details = Some(pays[i].handled.value)]
    /\ UNCHANGED <<signer, signLog, response, now>>
    /\ UNCHANGED marketVars

\* processPaymentFlow resumes: handle402Error's error ends the flow, its
\* details go to signPayment, which runs up to its first await.
FlowResume(i) ==
    /\ pays[i].op = "processPaymentFlow" /\ pays[i].pc = "handled"
    /\ pays' =
          IF pays[i].handled.kind = "error"
          THEN [pays EXCEPT ![i].pc = "done", ![i].result = pays[i].handled]
          ELSE IF signer = Null
          THEN [pays EXCEPT ![i].pc = "done", ![i].result = Fail(MissingSigner),
                            ![i].details = Some(pays[i].handled.value)]
          ELSE [pays EXCEPT ![i].pc = "address", ![i].addressOf = signer,
                            ![i].details = Some(pays[i].handled.value)]
    /\ UNCHANGED <<signer, signLog, response, now>>
    /\ UNCHANGED marketVars

\* signPayment resumes with the address: the timestamp, the message, and
\* this.signer.signMessage(message).
SignMessage(i) ==
    /\ pays[i].op \in {"signPayment", "processPaymentFlow"} /\ pays[i].pc = "address"
    /\ LET timestamp == NowSeconds(now)
           message   == PaymentMessage(pays[i].details[1], pays[i].url, timestamp)
       IN  /\ signLog' = signLog (+) SetToBag({[signer |-> signer, message |-> message,
                                                call |-> i]})
           /\ pays' = [pays EXCEPT ![i].pc = "signing", ![i].signedBy = signer,
                                   ![i].message = Some(message),
                                   ![i].timestamp = Some(timestamp)]
    /\ UNCHANGED <<signer, response, now>>
    /\ UNCHANGED marketVars

\* signPayment resumes with the signature and returns the proof;
\* processPaymentFlow turns it into the Authorization header value.
SignReturn(i) ==
    /\ pays[i].op \in {"signPayment", "processPaymentFlow"} /\ pays[i].pc = "signing"
    /\ LET proof == PaymentProof(pays[i].message[1],
                                 signMessage(pays[i].signedBy, pays[i].message[1]),
                                 pays[i].timestamp[1])
       IN  pays' = [pays EXCEPT ![i].pc = "done",
                       ![i].result = IF pays[i].op = "signPayment" THEN Ok(proof)
                                     ELSE Ok(OpaqueAuthHeader(proof))]
    /\ UNCHANGED <<signer, signLog, response, now>>
    /\ UNCHANGED marketVars

Init ==
    /\ config \in [onChainRegistry : BOOLEAN, encryptionKey : {FALSE}]
    /\ now = 0
    /\ listings = <<>>
    /\ console = EmptyBag
    /\ calls = <<>>
    /\ signer = Null
    /\ pays = <<>>
    /\ signLog = EmptyBag
    /\ response = None

Next ==
    \/ \E v \in Vectors, p \in Prices, s \in Sellers : ListStart(v, p, s)
    \/ \E i \in DOMAIN calls : ListUploaded(i)
    \/ \E i \in DOMAIN calls : ListStore(i)
    \/ \E i \in DOMAIN calls : ListReturn(i)
    \/ \E id \in DOMAIN listings \cup {UnknownId}, b \in Buyers : BuyStart(id, b)
    \/ \E i \in DOMAIN calls : BuyRecord(i)
    \/ \E i \in DOMAIN calls : BuyTransfer(i)
    \/ \E i \in DOMAIN calls : BuyReturn(i)
    \/ Tick

Spec == Init /\ [][Next]_vars

(***************************************************************************)
(* Challenge parsing on its own: one response, drawn from Responses.       *)
(***************************************************************************)
InitParse ==
    /\ config = [onChainRegistry |-> FALSE, encryptionKey |-> FALSE]
    /\ now = 0
    /\ listings = <<>>
    /\ console = EmptyBag
    /\ calls = <<>>
    /\ signer = Null
    /\ pays = <<>>
    /\ signLog = EmptyBag
    /\ response \in {Some(r) : r \in Responses}

NextParse == Handle402

SpecParse == InitParse /\ [][NextParse]_vars

(***************************************************************************)
(* The X402 client: signing and payment flows on one response.             *)
(***************************************************************************)
InitPay ==
    /\ config = [onChainRegistry |-> FALSE, encryptionKey |-> FALSE]
    /\ now = 0
    /\ listings = <<>>
    /\ console = EmptyBag
    /\ calls = <<>>
    /\ signer \in {Null} \cup Signers
    /\ pays = <<>>
    /\ signLog = EmptyBag
    /\ response \in {None} \cup {Some(r) : r \in FlowResponses}

\* A behaviour is of a caller that holds a response and runs payment flows
\* on it, or of one that holds challenges and signs them itself.
NextPay ==
    \/ \E s \in Signers : setSigner(s)
    \/ \E d \in DetailsInputs, u \in Urls : response = None /\ SignPaymentStart(d, u)
    \/ \E u \in Urls : FlowStart(u)
    \/ \E i \in DOMAIN pays : FlowResume(i)
    \/ \E i \in DOMAIN pays : SignMessage(i)
    \/ \E i \in DOMAIN pays : SignReturn(i)
    \/ Tick

SpecPay == InitPay /\ [][NextPay]_vars

(***************************************************************************)
(* The catalog: listings, direct uploads and retrievals.                   *)
(***************************************************************************)
NextCatalog ==
    \/ \E v \in CatalogVectors, p \in Prices, s \in CatalogSellers : ListStart(v, p, s)
    \/ \E i \in DOMAIN calls : ListUploaded(i)
    \/ \E i \in DOMAIN calls : ListStore(i)
    \/ \E i \in DOMAIN calls : ListReturn(i)
    \/ \E v \in LongVectors, o \in Sellers : UploadStart(v, o)
    \/ \E i \in DOMAIN calls : UploadReturn(i)
    \/ \E cid \in UploadedCids \cup {UnknownCid} : Retrieve(cid)
    \/ Tick

SpecCatalog == Init /\ [][NextCatalog]_vars

(***************************************************************************)
(* Similarity search over the listings.                                    *)
(***************************************************************************)
\* A vault without registry and encryption key, and no signer.
InitSearch ==
    /\ config = [onChainRegistry |-> FALSE, encryptionKey |-> FALSE]
    /\ now = 0
    /\ listings = <<>>
    /\ console = EmptyBag
    /\ calls = <<>>
    /\ signer = Null
    /\ pays = <<>>
    /\ signLog = EmptyBag
    /\ response = None

NextSearch ==
    \/ \E v \in Vectors, p \in Prices, s \in Sellers : ListStart(v, p, s)
    \/ \E i \in DOMAIN calls : ListStore(i)
    \/ \E i \in DOMAIN calls : ListReturn(i)
    \/ \E q \in Queries, t \in Thresholds, l \in Limits :
          \E random \in [1..l -> RandomVectors(Len(q))] : FindSimilar(q, t, l, random)
    \/ \E q \in Vectors, f \in SearchFilters :
          \E random \in SearchDraws : SearchStart(q, f, random)
    \/ \E i \in DOMAIN calls : SearchReturn(i)

SpecSearch == InitSearch /\ [][NextSearch]_vars

(***************************************************************************)
(* Authorization header values on their own.                               *)
(***************************************************************************)
NextToken == \E proof \in ProofTexts : CreateAuthHeader(proof)

SpecToken == Init /\ [][NextToken]_vars

(***************************************************************************)
(* Vector math on its own.                                                 *)
(***************************************************************************)
NextMath ==
    \/ \E a \in MathVectors, b \in MathVectors : CallDotProduct(a, b)
    \/ \E v \in MathVectors : CallVectorNorm(v)
    \/ \E v \in MathVectors : CallNormalizeVector(v)
    \/ \E a \in MathVectors, b \in MathVectors : CallCosineSimilarity(a, b)
    \/ \E a \in MathVectors, b \in MathVectors : CallEuclideanDistance(a, b)

SpecMath == Init /\ [][NextMath]_vars

(***************************************************************************)
(* cosineSimilarity with the numbers it returns.                           *)
(***************************************************************************)
NextNumber ==
    \E a \in NumberVectors, b \in NumberVectors : CallCosineSimilarityNumber(a, b)

SpecNumber == Init /\ [][NextNumber]_vars

(***************************************************************************)
(* Marketplace purchases: what the claims speak of.                        *)
(***************************************************************************)
Buys == {i \in DOMAIN calls : calls[i].op = "buy"}

Returned(i) == calls[i].pc = "done"
Succeeded(i) == calls[i].result.kind = "ok"

\* The error kind the specification gives a purchase of a listing that is
\* no longer Active.  No statement of the code produces it.
ListingUnavailable == "Listing unavailable"

\* The ledger the code has: the "Recording purchase" console lines, each
\* with the number of times it was written.
PurchaseRecords(id) ==
    LET lines == {l \in BagToSet(console) :
                    l.msg = "Recording purchase" /\ l.listingId = id}
    IN  [l \in lines |-> CopiesIn(l, console)]

\* Buy calls i and j were made on the same stored listing.
SameListing(i, j) ==
    /\ calls[i].listing # None
    /\ calls[i].listingId = calls[j].listingId
    /\ calls[i].listing = calls[j].listing

\* Call j started while call i was suspended at one of its awaits.
Overlapped(i, j) == i < j /\ i \in calls[j].inFlight

\* The owner field of the vector record of the listing stored under id.
OwnerOf(id) == listings[id].vectorMetadata.owner

\* C1: of the purchase calls that overlap on one Active listing, exactly one
\* returns the vector, every other one fails with ListingUnavailable, and
\* exactly one purchase record exists once they have returned.
C1_OneConcurrentPurchaseWins ==
    \A i, j \in Buys :
        (Overlapped(i, j) /\ SameListing(i, j) /\ Returned(i) /\ Returned(j)) =>
            /\ \/ Succeeded(i) /\ calls[j].result = Fail(ListingUnavailable)
               \/ Succeeded(j) /\ calls[i].result = Fail(ListingUnavailable)
            /\ BagCardinality(PurchaseRecords(calls[i].listingId)) = 1

\* C2: a purchase is all-or-nothing: a listing has been sold to a buyer
\* (the purchase returned the vector) exactly when its purchase record is
\* written and the owner of its vector record is that buyer.
C2_PurchaseAllOrNothing ==
    \A i \in Buys :
        calls[i].listingId \in DOMAIN listings =>
            ( Succeeded(i) <=>
                /\ \E l \in BagToSet(PurchaseRecords(calls[i].listingId)) :
                       l.buyer = calls[i].buyer
                /\ OwnerOf(calls[i].listingId) = calls[i].buyer )

\* C3: a listing is sold once: a purchase of a listing that an earlier,
\* already returned purchase bought fails with ListingUnavailable.
C3_SoldIsTerminal ==
    \A i, j \in Buys :
        ( /\ i < j /\ ~Overlapped(i, j) /\ SameListing(i, j)
          /\ Succeeded(i) /\ Returned(j) ) =>
            calls[j].result = Fail(ListingUnavailable)

\* C4: a purchase under an id that the listing collection does not hold
\* fails at once with ListingNotFound: it fetches no vector, writes no
\* purchase record, transfers no ownership and touches no listing.
C4_UnknownListingNotFound ==
    [][ ( /\ Len(calls') = Len(calls) + 1
          /\ calls'[Len(calls')].op = "buy"
          /\ calls'[Len(calls')].listingId \notin DOMAIN listings )
        => ( /\ calls'[Len(calls')].result = Fail(ListingNotFound)
             /\ calls'[Len(calls')].pc = "done"
             /\ ListingNotFound # ListingUnavailable
             /\ console' = console
             /\ listings' = listings ) ]_vars

\* A purchase under an unknown id has failed while a listing is on sale.
C4_Witness ==
    \E i \in Buys :
        /\ calls[i].result = Fail(ListingNotFound)
        /\ calls[i].listingId \notin DOMAIN listings
        /\ DOMAIN listings # {}

\* C5: a purchase returns the vector only to a caller that presented an
\* authorization token (validated against the listing's seller and price).
C5_NoPurchaseWithoutProof ==
    \A i \in Buys :
        Succeeded(i) => "authorizationToken" \in DOMAIN calls[i]

\* C6: when a purchase returns the vector, a purchase record
\* {listingId, buyer, seller, price} of it is in the ledger, no earlier
\* ledger line has changed, and the owner of the listing's vector record is
\* the buyer.
C6_RecordAndOwnershipTransfer ==
    [][ \A i \in Buys :
          (~Succeeded(i) /\ calls'[i].result.kind = "ok") =>
              /\ \E l \in BagToSet(PurchaseRecords(calls[i].listingId)') :
                    /\ l.buyer = calls[i].buyer
                    /\ l.seller = calls[i].listing[1].seller
                    /\ l.price = calls[i].listing[1].price
              /\ console \sqsubseteq console'
              /\ OwnerOf(calls[i].listingId)' = calls[i].buyer ]_vars

(***************************************************************************)
(* Payment client: what the claims speak of.                               *)
(***************************************************************************)
\* The signPayment calls, made directly or by processPaymentFlow.
Signs == {i \in DOMAIN pays : pays[i].op \in {"signPayment", "processPaymentFlow"}}

\* The error kinds the specification gives a replayed nonce and an expired
\* challenge.  No statement of the code produces them.
ReplayedNonce    == "Replayed nonce"
ExpiredChallenge == "Expired challenge"

\* Call i reached signPayment's signing with this signer configured.
SignerOf(i) == pays[i].addressOf

\* The number of signMessage invocations made for call i.
SignaturesFor(i) ==
    BagCardinality([l \in {e \in BagToSet(signLog) : e.call = i} |->
                        CopiesIn(l, signLog)])

RECURSIVE ParseNat(_)
\* The number a string of decimal digits denotes.
ParseNat(str) ==
    IF Len(str) = 0 THEN 0
    ELSE 10 * ParseNat(SubSeq(str, 1, Len(str) - 1)) + (CharCode(str[Len(str)]) - 48)

\* The expiry a response states, in the encoding parseX402Headers reads.
ResponseExpiry(r) ==
    IF Truthy(r.www) /\ startsWith(r.www[1], SchemeX402)
    THEN MatchQuoted(r.www[1], <<"e", "x", "p", "i", "r", "y">>)
    ELSE OrUndefined(r.expiry)

\* The expiry of the challenge call i is about.
ChallengeExpiry(i) ==
    IF pays[i].op = "signPayment" THEN pays[i].details[1].expiry
    ELSE IF ResponseExpiry(response[1]) = None THEN None
    ELSE Some(ParseNat(ResponseExpiry(response[1])[1]))

\* C7: replay protection: of two challenges with the same nonce signed one
\* after the other for one signer identity, the first yields a proof and
\* the second fails with ReplayedNonce.
C7_NonceNotReplayed ==
    \A i, j \in Signs :
        ( /\ i < j /\ i \notin pays[j].inFlight
          /\ pays[i].result.kind = "ok" /\ pays[j].pc = "done"
          /\ pays[j].details # None
          /\ pays[i].details[1].nonce # None
          /\ pays[i].details[1].nonce = pays[j].details[1].nonce
          /\ SignerOf(i) = SignerOf(j) ) =>
            pays[j].result = Fail(ReplayedNonce)

\* C8: a challenge whose expiry lies before the current time is rejected
\* with ExpiredChallenge and the Signer is not invoked for it; a parsed
\* challenge carries the expiry its response states.
C8_ExpiredChallengeRejected ==
    \A i \in Signs :
        /\ ( /\ pays[i].pc = "done" /\ SignerOf(i) # Null
             /\ ChallengeExpiry(i) # None
             /\ ChallengeExpiry(i)[1] < NowSeconds(0) ) =>
                /\ pays[i].result = Fail(ExpiredChallenge)
                /\ SignaturesFor(i) = 0
        /\ ( /\ pays[i].op = "processPaymentFlow"
             /\ pays[i].handled.kind = "ok"
             /\ ResponseExpiry(response[1]) # None ) =>
                pays[i].handled.value.expiry # None

\* The signPayment calls made directly.
DirectSigns == {i \in DOMAIN pays : pays[i].op = "signPayment"}

\* C11: signPayment called while no signer is configured fails with
\* MissingSigner, returns no proof and invokes no signing, then or later;
\* called while a signer is configured (by the constructor or by setSigner)
\* it does not fail so, and when it returns it returns a proof signed by a
\* configured signer.
C11_MissingSignerThenSigned ==
    [][ /\ ( /\ Len(pays') = Len(pays) + 1
              /\ pays'[Len(pays')].op = "signPayment" ) =>
                IF signer = Null
                THEN /\ pays'[Len(pays')].result = Fail(MissingSigner)
                     /\ pays'[Len(pays')].pc = "done"
                     /\ signLog' = signLog
                ELSE /\ pays'[Len(pays')].result = Pending
                     /\ pays'[Len(pays')].pc # "done"
        /\ \A i \in DirectSigns :
              /\ pays[i].result = Fail(MissingSigner) =>
                    /\ pays'[i] = pays[i]
                    /\ SignaturesFor(i)' = 0
              /\ (pays[i].pc # "done" /\ pays'[i].pc = "done") =>
                    /\ pays'[i].result.kind = "ok"
                    /\ pays'[i].result.value.signature.signedBy \in Signers
                    /\ SignaturesFor(i)' = 1 ]_vars

\* On one client a signPayment call failed for want of a signer and, after
\* setSigner, a later one returned a proof.
C11_Witness ==
    \E i, j \in DirectSigns :
        /\ i < j
        /\ pays[i].result = Fail(MissingSigner)
        /\ SignaturesFor(i) = 0
        /\ signer # Null
        /\ pays[j].result.kind = "ok"

\* The processPaymentFlow calls.
Flows == {i \in DOMAIN pays : pays[i].op = "processPaymentFlow"}

\* How far a flow has come: the challenge is being read (status and
\* headers), it is read and the signer's address awaited, the message is
\* being signed, the flow has ended.
Phase(pc) ==
    CASE pc = "handled" -> 0
      [] pc = "address" -> 1
      [] pc = "signing" -> 2
      [] pc = "done"    -> 3

\* The errors of the steps before signing, in the order of the steps.
ChallengeErrors == {UnsupportedStatus, MissingChallenge, MalformedChallenge}

\* The response carries no challenge, in either encoding.
NoChallenge(r) == r.www = None /\ r.price = None /\ r.wallet = None

\* The signer was invoked for call i: for its address or for a signature.
SignerInvoked(i) == pays[i].addressOf # Null \/ SignaturesFor(i) > 0

\* What C22 says of flow i in one state.
FlowInOrder(i) ==
    LET f == pays[i]
        r == response[1]
    IN  \* the status is validated first, then the challenge is parsed
        /\ r.status # PaymentRequired => f.handled = Fail(UnsupportedStatus)
        /\ (r.status = PaymentRequired /\ NoChallenge(r)) =>
               f.handled = Fail(MissingChallenge)
        /\ f.handled.kind = "error" => f.handled.error \in ChallengeErrors
        \* the first failing step ends the flow with its own error, and the
        \* signer is not invoked after it
        /\ f.handled.kind = "error" =>
               /\ f.pc \in {"handled", "done"}
               /\ f.pc = "done" => f.result = f.handled
               /\ ~SignerInvoked(i)
        /\ (f.pc = "done" /\ f.handled.kind = "ok" /\ f.result.kind = "error") =>
               /\ f.result = Fail(MissingSigner)
               /\ ~SignerInvoked(i)
        \* a token is returned only after all the steps succeeded
        /\ f.result.kind = "ok" =>
               /\ f.pc = "done" /\ f.handled.kind = "ok"
               /\ f.addressOf # Null /\ SignaturesFor(i) = 1
        /\ f.pc # "done" => f.result = Pending
        \* signMessage is invoked at most once, and only in its turn
        /\ SignaturesFor(i) <= 1
        /\ SignaturesFor(i) = 1 <=> Phase(f.pc) >= 2 /\ f.result.kind # "error"

\* C22: processPaymentFlow runs validateStatus, parseChallenge, signPayment
\* and createAuthorizationToken once each in that order and never moves
\* backwards: a token is returned only after all four succeeded, the first
\* failing step ends the flow with its own error (UnsupportedStatus,
\* MissingChallenge, MalformedChallenge, MissingSigner), the signer is not
\* invoked when an earlier step failed, and signMessage is invoked at most
\* once per flow.
C22_FlowStepsInOrder ==
    [][ /\ \A i \in Flows' : FlowInOrder(i)'
        /\ \A i \in Flows :
              /\ Phase(pays[i].pc) <= Phase(pays'[i].pc)
              /\ pays[i].pc = "done" => pays'[i] = pays[i] ]_vars

\* On one client a flow ended with MissingSigner and no signer invoked,
\* and after setSigner a flow on the same response returned a token after
\* one signature.
C22_Witness ==
    \E i, j \in Flows :
        /\ pays[i].result = Fail(MissingSigner) /\ ~SignerInvoked(i)
        /\ pays[j].result.kind = "ok" /\ SignaturesFor(j) = 1

\* C24: a proof is bound to one signer identity: when setSigner is called
\* while a signPayment call is suspended at one of its awaits, the signature
\* of the proof it returns is still made by the signer configured when the
\* call started (the one whose address it read), not by the replacement.
C24_ProofSignedByStartingSigner ==
    \A i \in DirectSigns :
        pays[i].result.kind = "ok" =>
            pays[i].result.value.signature.signedBy = pays[i].addressOf

\* The handle402Error calls made on their own.
Handled == {i \in DOMAIN pays : pays[i].op = "handle402Error"}

\* The structured encoding of a response states the field.
InStructured(r, name) ==
    /\ Truthy(r.www) /\ startsWith(r.www[1], SchemeX402)
    /\ MatchQuoted(r.www[1], name) # None

PriceName  == <<"p", "r", "i", "c", "e">>
WalletName == <<"w", "a", "l", "l", "e", "t">>

\* C9: a 402 response is malformed only when price or wallet is absent from
\* both encodings: with price or wallet missing from the structured header
\* and both in the flat headers it parses to the flat values, with only
\* flat headers carrying both it parses, and with wallet in neither
\* encoding it fails with MalformedChallenge.
C9_MalformedOnlyWhenAbsentInBoth ==
    \A i \in Handled :
        LET r == pays[i].response
        IN  r.status = PaymentRequired =>
              /\ ( /\ Truthy(r.price) /\ Truthy(r.wallet)
                   /\ ~(InStructured(r, PriceName) /\ InStructured(r, WalletName)) ) =>
                      /\ pays[i].result.kind = "ok"
                      /\ pays[i].result.value.price = r.price[1]
                      /\ pays[i].result.value.wallet = r.wallet[1]
              /\ (~Truthy(r.wallet) /\ ~InStructured(r, WalletName)
                  /\ (Truthy(r.price) \/ InStructured(r, PriceName))) =>
                      pays[i].result = Fail(MalformedChallenge)

\* The values the complete structured and flat challenges of Responses carry.
StructuredValues == [price |-> <<"5">>, wallet |-> <<"A">>, token |-> <<"T">>, nonce |-> <<"n">>]

\* The response carries a complete structured X402 challenge and complete
\* flat headers.
BothComplete(r) ==
    /\ \E e \in {None, Some(<<"1">>)} :
          r.www = Some(StructuredHeader(SchemeX402, Some(StructuredValues.price),
                          Some(StructuredValues.wallet), Some(StructuredValues.token),
                          Some(StructuredValues.nonce), e))
    /\ Truthy(r.price) /\ Truthy(r.wallet) /\ Truthy(r.token) /\ Truthy(r.nonce)
    /\ r.price[1] # StructuredValues.price /\ r.wallet[1] # StructuredValues.wallet
    /\ r.token[1] # StructuredValues.token /\ r.nonce[1] # StructuredValues.nonce

\* C10: when a response carries a complete structured challenge and
\* complete flat headers with other values, price, wallet, token and nonce
\* of the parsed challenge are those of the structured header.
C10_StructuredTakesPrecedence ==
    \A i \in Handled :
        (pays[i].response.status = PaymentRequired /\ BothComplete(pays[i].response)) =>
            /\ pays[i].result.kind = "ok"
            /\ pays[i].result.value.price = StructuredValues.price
            /\ pays[i].result.value.wallet = StructuredValues.wallet
            /\ pays[i].result.value.tokenAddress = Some(StructuredValues.token)
            /\ pays[i].result.value.nonce = Some(StructuredValues.nonce)

\* A response with both encodings complete has been parsed.
C10_Witness ==
    \E i \in Handled :
        /\ pays[i].response.status = PaymentRequired
        /\ BothComplete(pays[i].response)
        /\ pays[i].result.kind = "ok"

(***************************************************************************)
(* The catalog: what the claims speak of.                                  *)
(***************************************************************************)
\* The listMemoryShard calls, and those that have stored their listing.
Lists == {i \in DOMAIN calls : calls[i].op = "list"}
Stored(i) == calls[i].id # None

\* C12: every list call stores a new listing under an id no earlier listing
\* has: two list calls never get the same id, the catalog holds as many
\* listings as list calls have stored, and each is found by getListing
\* under its own id.
C12_ListingIdsUnique ==
    /\ \A i, j \in Lists :
          (i # j /\ Stored(i) /\ Stored(j)) => calls[i].id # calls[j].id
    /\ Cardinality(getAllListings) = Cardinality({i \in Lists : Stored(i)})
    /\ \A i \in Lists :
          Stored(i) =>
             /\ getListing(calls[i].id[1]) # None
             /\ getListing(calls[i].id[1])[1].vectorMetadata = calls[i].metadata
             /\ getListing(calls[i].id[1])[1].seller = calls[i].seller

\* The uploadVector calls, made directly or by listMemoryShard.
Uploads == {i \in DOMAIN calls : calls[i].op \in {"upload", "list"}}

\* C13: a content id identifies one payload: two uploads of different
\* vectors never receive the same content id.
C13_ContentIdIdentifiesPayload ==
    \A i, j \in Uploads :
        calls[i].vector # calls[j].vector =>
            calls[i].metadata.cid # calls[j].metadata.cid

\* The vector the seller passed to the list call that stored this listing.
ListedVectors(listing) ==
    {calls[k].vector : k \in {n \in Lists : calls[n].metadata = listing.vectorMetadata}}

\* C17: a successful purchase returns exactly the vector the seller passed
\* to the list call that created the listing.
C17_PurchaseReturnsListedVector ==
    \A i \in Buys :
        Succeeded(i) => calls[i].result.value \in ListedVectors(calls[i].listing[1])

\* The retrieveVector calls made directly.
Retrieves == {i \in DOMAIN calls : calls[i].op = "retrieve"}

\* The error kind the specification gives a lookup of an unknown content
\* id.  No statement of the code produces it.
NotFound == "Not found"

\* C18: retrieve of a content id that no upload has returned fails with
\* NotFound and returns no vector.
C18_UnknownContentIdNotFound ==
    \A i \in Retrieves :
        calls[i].cid \notin UploadedCids => calls[i].result = Fail(NotFound)

(***************************************************************************)
(* Vector math: what the claims speak of.                                  *)
(***************************************************************************)
MathCalls == {i \in DOMAIN calls : calls[i].op = "math"}

Pairwise == {"dotProduct", "cosineSimilarity", "euclideanDistance"}

\* The vector has norm zero: it has no component other than 0.
ZeroNorm(v) == \A k \in DOMAIN v : v[k] = 0

\* The messages that stand for the ZeroVectorError kind.
ZeroVectorError == {ZeroVectorNormalize, ZeroVectorSimilarity}

\* C20: a pairwise operation on vectors of different lengths fails with
\* DimensionMismatch; normalizeVector of a vector of zero norm, and
\* cosineSimilarity of equal-length vectors one of which has zero norm (the
\* empty vector included), fail with ZeroVectorError; no number is returned.
C20_MathRejectsBadOperands ==
    \A i \in MathCalls :
        LET c == calls[i]
        IN  /\ (c.fn \in Pairwise /\ Len(c.a) # Len(c.b)) =>
                   c.result = Fail(DimensionMismatch)
            /\ (c.fn = "normalizeVector" /\ ZeroNorm(c.a)) =>
                   /\ c.result.kind = "error"
                   /\ c.result.error \in ZeroVectorError
            /\ ( /\ c.fn = "cosineSimilarity" /\ Len(c.a) = Len(c.b)
                 /\ (ZeroNorm(c.a) \/ ZeroNorm(c.b)) ) =>
                   /\ c.result.kind = "error"
                   /\ c.result.error \in ZeroVectorError

\* cosineSimilarity was called with one zero and one non-zero operand of the
\* same length and failed.
C20_Witness ==
    \E i \in MathCalls :
        /\ calls[i].fn = "cosineSimilarity"
        /\ Len(calls[i].a) = Len(calls[i].b) /\ Len(calls[i].a) > 0
        /\ ZeroNorm(calls[i].a) /\ ~ZeroNorm(calls[i].b)
        /\ calls[i].result.kind = "error"

NumberCalls == {i \in DOMAIN calls : calls[i].op = "number"}

\* x <= y on doubles
LessEq64(x, y) ==
    LET Above(p, q) ==     \* p > q, for p and q above zero
            LET pe == p.exp + BigBitLength(p.mant)
                qe == q.exp + BigBitLength(q.mant)
            IN  pe > qe \/ (pe = qe /\ BigCmp(p.mant, q.mant) > 0)
    IN  IF Len(x.mant) = 0 THEN Len(y.mant) = 0 \/ y.sign = 1
        ELSE IF Len(y.mant) = 0 THEN x.sign = -1
        ELSE IF x.sign # y.sign THEN x.sign = -1
        ELSE IF x.sign = 1 THEN ~Above(x, y)
        ELSE ~Above(y, x)

One64      == Int64(1)
MinusOne64 == Int64(-1)

\* The double is in [-1, 1].
InUnitRange(v) == LessEq64(MinusOne64, v) /\ LessEq64(v, One64)

\* C21: for equal-length vectors a and b of non-zero norm,
\* cosineSimilarity(a, b) equals cosineSimilarity(b, a) and the number
\* returned lies in [-1, 1].
C21_CosineSymmetricInRange ==
    \A i \in NumberCalls :
        LET c == calls[i]
        IN  (Len(c.a) = Len(c.b) /\ ~ZeroNorm(c.a) /\ ~ZeroNorm(c.b)) =>
                /\ c.result.kind = "ok"
                /\ c.result = cosineSimilarityNumber(c.b, c.a)
                /\ InUnitRange(c.result.value)

(***************************************************************************)
(* Similarity search: what the claims speak of.                            *)
(***************************************************************************)
SearchCalls == {i \in DOMAIN calls : calls[i].op = "search"}
FindCalls   == {i \in DOMAIN calls : calls[i].op = "findSimilar"}

\* The threshold a search is to use: filters.minSimilarity when supplied,
\* the default otherwise.
ClaimedThreshold(filters) ==
    IF filters # None /\ filters[1].minSimilarity # None
    THEN filters[1].minSimilarity[1]
    ELSE DefaultMinSimilarity

\* C23: search uses the caller's filters.minSimilarity as the findSimilar
\* threshold for every supplied value, 0 included; the default threshold is
\* used only when minSimilarity is not supplied.
C23_SearchUsesSuppliedThreshold ==
    \A i \in SearchCalls :
        calls[i].threshold = ClaimedThreshold(calls[i].filters)

\* The listing of list call k passes the price, category and seller
\* filters.
PassesFilters(k, filters) ==
    \/ filters = None
    \/ /\ filters[1].maxPrice = None \/ BigInt(calls[k].price) <= BigInt(filters[1].maxPrice[1])
       /\ filters[1].category = None
       /\ filters[1].seller = None \/ calls[k].seller = filters[1].seller[1]

\* C14: search completeness: a search that started after list(v, price,
\* seller) had returned, and that returns, returns that listing whenever
\* cosineSimilarity(q, v) is at least the threshold and the listing passes
\* the filters; so search(v) without filters returns the listing of v.
C14_SearchFindsListedVector ==
    \A i \in SearchCalls : \A k \in Lists :
        ( /\ k < i /\ k \notin calls[i].inFlight
          /\ calls[i].result.kind = "ok"
          /\ ~SimLess(cosineSimilarity(calls[i].query, calls[k].vector).value,
                      Tenths(ClaimedThreshold(calls[i].filters)))
          /\ PassesFilters(k, calls[i].filters) ) =>
            \E n \in DOMAIN calls[i].result.value :
                calls[i].result.value[n].listing.vectorMetadata = calls[k].metadata

\* The results are in descending order of similarity, equal similarities
\* in descending order of createdAt.  Both orders are transitive, so it is
\* stated of each record and the next.
Ranked(rs) ==
    \A k \in DOMAIN rs :
        k < Len(rs) =>
            /\ ~SimLess(rs[k].similarity, rs[k + 1].similarity)
            /\ ~SimLess(rs[k + 1].similarity, rs[k].similarity) =>
                   rs[k].metadata.createdAt > rs[k + 1].metadata.createdAt

\* The place of a search result among the similar vectors of its search.
PlaceIn(similar, r) ==
    {n \in DOMAIN similar : similar[n].metadata.cid = r.listing.vectorMetadata.cid}

\* C16: findSimilar returns at most limit records, none with a similarity
\* below the threshold, in descending order of similarity and, for equal
\* similarities, of createdAt; search returns its results in the order
\* findSimilar gave them.
C16_FindSimilarRanked ==
    /\ \A i \in FindCalls :
          calls[i].result.kind = "ok" =>
             /\ Len(calls[i].result.value) <= calls[i].limit
             /\ \A k \in DOMAIN calls[i].result.value :
                   ~SimLess(calls[i].result.value[k].similarity, Tenths(calls[i].threshold))
             /\ Ranked(calls[i].result.value)
    /\ \A i \in SearchCalls :
          calls[i].similar.kind = "ok" => Ranked(calls[i].similar.value)
    /\ \A i \in SearchCalls :
          calls[i].result.kind = "ok" =>
             \A k, l \in DOMAIN calls[i].result.value :
                k < l =>
                   \E m \in PlaceIn(calls[i].similar.value, calls[i].result.value[k]),
                      n \in PlaceIn(calls[i].similar.value, calls[i].result.value[l]) : m < n

\* findSimilar has returned two records of different similarity, the one
\* drawn later first.
C16_Witness ==
    \E i \in FindCalls :
        /\ calls[i].result.kind = "ok"
        /\ Len(calls[i].result.value) = 2
        /\ SimLess(calls[i].result.value[2].similarity, calls[i].result.value[1].similarity)
        /\ calls[i].result.value[1].metadata.createdAt
              < calls[i].result.value[2].metadata.createdAt

(***************************************************************************)
(* Authorization header values: what the claims speak of.                  *)
(***************************************************************************)
TokenCalls == {i \in DOMAIN calls : calls[i].op = "createAuthHeader"}

Base64Chars == {Base64Alphabet[n] : n \in DOMAIN Base64Alphabet}

\* The six bits a base64 character stands for.
SixBits(c) == (CHOOSE n \in DOMAIN Base64Alphabet : Base64Alphabet[n] = c) - 1

\* The text is base64: groups of four characters of the alphabet, the last
\* with no, one or two '=' at its end.
IsBase64(str) ==
    /\ Len(str) % 4 = 0
    /\ \A n \in DOMAIN str :
          \/ str[n] \in Base64Chars
          \/ /\ str[n] = "="
             /\ n >= Len(str) - 1
             /\ n = Len(str) - 1 => str[Len(str)] = "="

\* The bytes a base64 text stands for.
RECURSIVE Base64Decode(_)
Base64Decode(str) ==
    IF Len(str) = 0 THEN <<>>
    ELSE LET a == SixBits(str[1])
             b == SixBits(str[2])
         IN  IF str[3] = "=" THEN <<a * 4 + b \div 16>>
             ELSE IF str[4] = "="
             THEN <<a * 4 + b \div 16, (b % 16) * 16 + SixBits(str[3]) \div 4>>
             ELSE <<a * 4 + b \div 16, (b % 16) * 16 + SixBits(str[3]) \div 4,
                    (SixBits(str[3]) % 4) * 64 + SixBits(str[4])>>
                  \o Base64Decode(SubSeq(str, 5, Len(str)))

\* The ASCII text of bytes.
TextOf(bytes) == [n \in DOMAIN bytes |-> Printable[bytes[n] - 31]]

\* JSON.parse of a string literal whose characters start at text[n]: the
\* string, and the place after its closing quote (0: there is none).
RECURSIVE ReadString(_, _)
ReadString(text, n) ==
    IF n > Len(text) THEN [value |-> <<>>, next |-> 0]
    ELSE IF text[n] = "\"" THEN [value |-> <<>>, next |-> n + 1]
    ELSE LET esc  == text[n] = "\\" /\ n < Len(text)
             rest == ReadString(text, IF esc THEN n + 2 ELSE n + 1)
         IN  [ value |-> <<IF esc THEN text[n + 1] ELSE text[n]>> \o rest.value,
               next  |-> rest.next ]

\* The text is a JSON integer.
IsInteger(str) ==
    LET digits == IF Len(str) > 0 /\ str[1] = "-" THEN Tail(str) ELSE str
    IN  /\ Len(digits) > 0
        /\ \A n \in DOMAIN digits : digits[n] \in {Digit(d) : d \in 0..9}
        /\ Len(digits) > 1 => digits[1] # "0"

ParseInteger(str) == IF str[1] = "-" THEN 0 - BigInt(Tail(str)) ELSE BigInt(str)

\* JSON.parse of the text of an object {"tx": string, "sig": string,
\* "ts": integer}, or None when the text is no such object.
ParseProofObject(text) ==
    IF ~MatchAt(text, 1, <<"{", "\"", "t", "x", "\"", ":", "\"">>) THEN None
    ELSE LET tx == ReadString(text, 8)
         IN  IF tx.next = 0
                \/ ~MatchAt(text, tx.next, <<",", "\"", "s", "i", "g", "\"", ":", "\"">>)
             THEN None
             ELSE LET sig == ReadString(text, tx.next + 8)
                  IN  IF sig.next = 0
                         \/ ~MatchAt(text, sig.next, <<",", "\"", "t", "s", "\"", ":">>)
                         \/ Len(text) < sig.next + 7
                         \/ text[Len(text)] # "}"
                         \/ ~IsInteger(SubSeq(text, sig.next + 6, Len(text) - 1))
                      THEN None
                      ELSE Some([ tx  |-> tx.value,
                                  sig |-> sig.value,
                                  ts  |-> ParseInteger(SubSeq(text, sig.next + 6,
                                                              Len(text) - 1)) ])

\* What the receiver of a header value reads from it: the object encoded
\* after `X402 `, or None when the value has not that form.
DecodeToken(token) ==
    IF ~MatchAt(token, 1, SchemeX402 \o <<" ">>) THEN None
    ELSE IF ~IsBase64(SubSeq(token, 6, Len(token))) THEN None
    ELSE ParseProofObject(TextOf(Base64Decode(SubSeq(token, 6, Len(token)))))

\* C19: the value createAuthHeader gives is `X402`, a space, and the base64
\* text of a JSON object {tx, sig, ts}; decoded, it gives back the proof's
\* transactionHash, signature and timestamp; and the values of two
\* different proofs are different.
C19_TokenDecodesToProof ==
    /\ \A i \in TokenCalls :
          DecodeToken(calls[i].result) =
              Some([ tx  |-> calls[i].proof.transactionHash,
                     sig |-> calls[i].proof.signature,
                     ts  |-> calls[i].proof.timestamp ])
    /\ \A i, j \in TokenCalls :
          calls[i].proof # calls[j].proof => calls[i].result # calls[j].result

\* Two header values have been made, of proofs that differ in the hash
\* alone, one of the hashes holding a quote and the signature a quote and
\* a backslash.
C19_Witness ==
    \E i, j \in TokenCalls :
        /\ calls[i].proof.transactionHash # calls[j].proof.transactionHash
        /\ calls[i].proof.signature = calls[j].proof.signature
        /\ calls[i].proof.timestamp = calls[j].proof.timestamp
        /\ \E n \in DOMAIN calls[i].proof.transactionHash :
              calls[i].proof.transactionHash[n] = "\""
        /\ \E n \in DOMAIN calls[i].proof.signature :
              calls[i].proof.signature[n] = "\\"
        /\ calls[i].proof.timestamp < 0

=============================================================================
